---------------------------- MODULE Spec2Model ----------------------------
(***************************************************************************)
(* Model of tools/gen_synth_meg.py: the generator of a synthetic BIDS MEG  *)
(* dataset.  The state is the filesystem subtree under output_dir, the     *)
(* process's position in main(), its arguments, the numpy global random    *)
(* state and what it printed.  Every directory creation and every file     *)
(* write is one step, so that an I/O error can strike between any two.     *)
(*                                                                         *)
(* Paths are pathlib paths relative to output_dir: sequences of name       *)
(* components.  A text file's content is its text (a string, "\n" between  *)
(* lines); a binary file's content is its sequence of bytes (0..255).      *)
(***************************************************************************)
EXTENDS Integers, Sequences, FiniteSets, TLC

\* ------------------------------------------------------------------ bounds
\* The values of --n-participants the model tries: every integer from -1
\* to MaxN, and LargeN, whose last labels have no padding zero.
MaxN == 2
LargeN == 10
\* Number of distinct seeds the global random state may start from.
NumSeeds == 2

MinN == 0 - 1
NValues == (MinN..MaxN) \cup {LargeN}

\* ----------------------------------------------------- strings and bytes
\* Python's str(d) for one decimal digit.
Digit(d) == SubSeq("0123456789", d + 1, d + 1)

\* Python's str(n) for n >= 0.
RECURSIVE ToStr(_)
ToStr(n) == IF n < 10 THEN Digit(n) ELSE ToStr(n \div 10) \o Digit(n % 10)

RECURSIVE ZeroFill(_, _)
ZeroFill(s, w) == IF Len(s) >= w THEN s ELSE ZeroFill("0" \o s, w)

\* The format spec {n:0wd} for n >= 0: at least w digits, zero-padded.
FormatD(n, w) == ZeroFill(ToStr(n), w)

\* sep.join(parts), joining the two halves of a long list separately.
RECURSIVE Join(_, _)
Join(parts, sep) ==
    IF Len(parts) = 0 THEN ""
    ELSE IF Len(parts) = 1 THEN parts[1]
    ELSE LET half == Len(parts) \div 2
         IN  Join(SubSeq(parts, 1, half), sep) \o sep
             \o Join(SubSeq(parts, half + 1, Len(parts)), sep)

\* ASCII code of the characters the byte literals of the source use.
Ord(c) ==
    CASE c = "F" -> 70 [] c = "I" -> 73 [] c = "_" -> 95 [] c = "L" -> 76
      [] c = "E" -> 69 [] c = "D" -> 68 [] c = "n" -> 110 [] c = "+" -> 43
      [] c = "1" -> 49

\* A bytes literal b"...": the ASCII codes of its characters.
Bytes(s) == [k \in 1..Len(s) |-> Ord(SubSeq(s, k, k))]

\* b"\x00" * count, and bytearray(count)
ZeroBytes(count) == [k \in 1..count |-> 0]

\* int.to_bytes(length, 'big')
ToBytesBig(value, length) ==
    [k \in 1..length |-> (value \div (256 ^ (length - k))) % 256]

\* int.to_bytes(length, 'little')
ToBytesLittle(value, length) ==
    [k \in 1..length |-> (value \div (256 ^ (k - 1))) % 256]

\* buf[lo:hi] = val on a bytearray (0-based, hi exclusive).
SliceAssign(buf, lo, hi, val) ==
    SubSeq(buf, 1, lo) \o val \o SubSeq(buf, hi + 1, Len(buf))

\* -------------------------------------------------------------- json.dump
JStr(s) == [t |-> "atom", v |-> "\"" \o s \o "\""]
JNum(text) == [t |-> "atom", v |-> text]
JInt(n) == [t |-> "atom", v |-> ToStr(n)]
JTrue == [t |-> "atom", v |-> "true"]
JList(items) == [t |-> "list", v |-> items]
JObj(pairs) == [t |-> "obj", v |-> pairs]

RECURSIVE Spaces(_)
Spaces(k) == IF k = 0 THEN "" ELSE " " \o Spaces(k - 1)

\* json.dumps(val, indent=2) at nesting depth `depth`: one item per line,
\* items separated by ",\n", no newline after the closing bracket.
RECURSIVE JsonDump(_, _)
JsonDump(val, depth) ==
    IF val.t = "atom" THEN val.v
    ELSE IF val.t = "list" THEN
        "[\n"
        \o Join([k \in 1..Len(val.v) |->
                   Spaces(2 * (depth + 1)) \o JsonDump(val.v[k], depth + 1)],
                ",\n")
        \o "\n" \o Spaces(2 * depth) \o "]"
    ELSE
        "{\n"
        \o Join([k \in 1..Len(val.v) |->
                   Spaces(2 * (depth + 1)) \o "\"" \o val.v[k][1] \o "\": "
                   \o JsonDump(val.v[k][2], depth + 1)],
                ",\n")
        \o "\n" \o Spaces(2 * depth) \o "}"


\* ------------------------------------------------------- numpy.random
\* The module-level generator is seeded from OS entropy when the process
\* starts and is deterministic afterwards.  It is modelled by a full-period
\* linear congruential generator over 0..RngModulus-1.
RngModulus == 64
Seeds == 0..(NumSeeds - 1)
RngStep(r) == (5 * r + 3) % RngModulus

AgeLow == 20
AgeHigh == 60
\* np.random.randint(low, high): an integer in low..high-1.
randint(r, low, high) == low + (r % (high - low))
\* np.random.choice(options)
choice(r, options) == options[1 + (r % Len(options))]

\* --------------------------------------------------------------- names
\* Python's None; `if session:` is false for None and for "".
None == "None"
Truthy(x) == x # None /\ x # ""

\* main: participant_id = f"sub-{i:02d}"
participant_id(i) == "sub-" \o FormatD(i, 2)

\* main: participant_dir = output_dir / participant_id
participant_dir(i) == <<participant_id(i)>>

\* create_meg_data: meg_dir
\* (variant: the directory built without the session level)
meg_dir_ignoring_session(pdir, session) == pdir \o <<"meg">>
meg_dir(pdir, session) ==
    IF Truthy(session) THEN pdir \o <<"ses-" \o session, "meg">>
    ELSE pdir \o <<"meg">>

task == "rest"
run == "01"

\* create_meg_data: base_name
base_name(pid, session) ==
    IF Truthy(session)
    THEN pid \o "_ses-" \o session \o "_task-" \o task \o "_run-" \o run
    ELSE pid \o "_task-" \o task \o "_run-" \o run

\* create_anatomical_data: anat_dir
anat_dir(pdir, session) ==
    IF Truthy(session) THEN pdir \o <<"ses-" \o session, "anat">>
    ELSE pdir \o <<"anat">>

\* create_anatomical_data: t1_name
t1_name(pid, session) ==
    IF Truthy(session) THEN pid \o "_ses-" \o session \o "_T1w"
    ELSE pid \o "_T1w"

meg_file(pdir, pid, session) ==
    meg_dir(pdir, session) \o <<base_name(pid, session) \o "_meg.fif">>
meg_json_file(pdir, pid, session) ==
    meg_dir(pdir, session) \o <<base_name(pid, session) \o "_meg.json">>
channels_file(pdir, pid, session) ==
    meg_dir(pdir, session) \o <<base_name(pid, session) \o "_channels.tsv">>
t1_file(pdir, pid, session) ==
    anat_dir(pdir, session) \o <<t1_name(pid, session) \o ".nii.gz">>
t1_json_file(pdir, pid, session) ==
    anat_dir(pdir, session) \o <<t1_name(pid, session) \o ".json">>

dataset_description_file == <<"dataset_description.json">>
participants_file == <<"participants.tsv">>

\* ------------------------------------------------------------ contents
\* create_dataset_description: the text json.dump writes.
description ==
    JObj(<< <<"Name", JStr("Synthetic MEG Test Dataset")>>,
            <<"BIDSVersion", JStr("1.8.0")>>,
            <<"License", JStr("CC0")>>,
            <<"Authors", JList(<<JStr("BIDS Apps Brainstorm")>>)>>,
            <<"DatasetType", JStr("raw")>>,
            <<"GeneratedBy",
              JObj(<< <<"Name", JStr("gen_synth_meg.py")>>,
                      <<"Version", JStr("0.1.0")>>,
                      <<"Description",
                        JStr("Synthetic data generator for testing")>> >>)>>
         >>)
description_text == JsonDump(description, 0)

\* create_participants_tsv: the rows list, drawing age then sex per row.
participants_header == "participant_id\tage\tsex\n"
RECURSIVE participants_rows(_, _, _)
participants_rows(i, n, r) ==
    IF i > n THEN <<>>
    ELSE LET age == randint(r, AgeLow, AgeHigh)
             r2 == RngStep(r)
             sex == choice(r2, <<"M", "F">>)
         IN  <<"sub-" \o FormatD(i, 2) \o "\t" \o ToStr(age) \o "\t" \o sex>>
             \o participants_rows(i + 1, n, RngStep(r2))

\* The random state after the 2n draws of create_participants_tsv.
RECURSIVE RngAfter(_, _)
RngAfter(r, draws) == IF draws <= 0 THEN r ELSE RngAfter(RngStep(r), draws - 1)

\* create_participants_tsv: f.write(header); f.write("\n".join(rows) + "\n")
\* (variant: the loop written as range(n_participants))
participants_text_from_zero(n, r) ==
    participants_header \o Join(participants_rows(0, n - 1, r), "\n") \o "\n"
participants_text(n, r) ==
    participants_header \o Join(participants_rows(1, n, r), "\n") \o "\n"

\* create_meg_data: the placeholder FIF payload.
FifPayloadLen == 1000
fif_bytes == Bytes("FIFF_FILE_ID") \o ZeroBytes(FifPayloadLen)

\* The channel counts stated in the sidecar.
\* (variant: only the planar gradiometers counted)
MEGChannelCount_gradiometers == 306 - 102
MEGChannelCount == 306
EOGChannelCount == 2
ECGChannelCount == 1

\* create_meg_data: meg_json
meg_json ==
    JObj(<< <<"TaskName", JStr(task)>>,
            <<"SamplingFrequency", JNum("1000.0")>>,
            <<"PowerLineFrequency", JInt(50)>>,
            <<"DewarPosition", JStr("upright")>>,
            <<"DigitizedLandmarks", JTrue>>,
            <<"DigitizedHeadPoints", JTrue>>,
            <<"MEGChannelCount", JInt(MEGChannelCount)>>,
            <<"MEGREFChannelCount", JInt(0)>>,
            <<"EEGChannelCount", JInt(0)>>,
            <<"EOGChannelCount", JInt(EOGChannelCount)>>,
            <<"ECGChannelCount", JInt(ECGChannelCount)>>,
            <<"EMGChannelCount", JInt(0)>>,
            <<"MiscChannelCount", JInt(0)>>,
            <<"TriggerChannelCount", JInt(16)>>,
            <<"RecordingDuration", JNum("600.0")>>,
            <<"RecordingType", JStr("continuous")>>,
            <<"InstitutionName", JStr("Test Institution")>>,
            <<"Manufacturer", JStr("Elekta")>>,
            <<"ManufacturersModelName", JStr("VectorView")>> >>)
meg_json_text == JsonDump(meg_json, 0)


\* create_meg_data: the channels list.  Floats are kept as str() renders
\* them in the f-string that writes the row.
NumMegLoop == 306
NumEogLoop == 2

\* (variant: channels named after their sensor triplet)
meg_channel_named_by_sensor(i) ==
    [name |-> "MEG" \o FormatD((i \div 3) + 1, 4),
     type |-> IF i % 3 = 2 THEN "MEGGMAG" ELSE "MEGGPLANAR",
     units |-> IF i % 3 = 2 THEN "T" ELSE "T/m",
     low_cutoff |-> "0.1", high_cutoff |-> "330.0",
     sampling_frequency |-> "1000.0", status |-> "good"]
\* (variant: the magnetometer taken as the first of each triplet)
meg_channel_magnetometer_first(i) ==
    [name |-> "MEG" \o FormatD(i + 1, 4),
     type |-> IF i % 3 = 0 THEN "MEGGMAG" ELSE "MEGGPLANAR",
     units |-> IF i % 3 = 0 THEN "T" ELSE "T/m",
     low_cutoff |-> "0.1", high_cutoff |-> "330.0",
     sampling_frequency |-> "1000.0", status |-> "good"]
meg_channel(i) ==
    [name |-> "MEG" \o FormatD(i + 1, 4),
     type |-> IF i % 3 = 2 THEN "MEGGMAG" ELSE "MEGGPLANAR",
     units |-> IF i % 3 = 2 THEN "T" ELSE "T/m",
     low_cutoff |-> "0.1", high_cutoff |-> "330.0",
     sampling_frequency |-> "1000.0", status |-> "good"]

eog_channel(i) ==
    [name |-> "EOG" \o FormatD(i + 1, 3), type |-> "EOG", units |-> "V",
     low_cutoff |-> "0.1", high_cutoff |-> "330.0",
     sampling_frequency |-> "1000.0", status |-> "good"]

ecg_channel ==
    [name |-> "ECG063", type |-> "ECG", units |-> "V",
     low_cutoff |-> "0.1", high_cutoff |-> "330.0",
     sampling_frequency |-> "1000.0", status |-> "good"]

channels ==
    [k \in 1..NumMegLoop |-> meg_channel(k - 1)]
    \o [k \in 1..NumEogLoop |-> eog_channel(k - 1)]
    \o <<ecg_channel>>

channels_header ==
    "name\ttype\tunits\tlow_cutoff\thigh_cutoff\tsampling_frequency\tstatus\n"

channel_row(ch) ==
    ch.name \o "\t" \o ch.type \o "\t" \o ch.units \o "\t" \o ch.low_cutoff
    \o "\t" \o ch.high_cutoff \o "\t" \o ch.sampling_frequency \o "\t"
    \o ch.status \o "\n"

\* create_meg_data: the text the loop of f.write calls produces.
channels_written(header, chs) ==
    header \o Join([k \in 1..Len(chs) |-> channel_row(chs[k])], "")
channels_text == channels_written(channels_header, channels)

\* create_anatomical_data: the placeholder NIfTI header and image data.
NiftiHeaderSize == 348
SizeofHdr == 348
NiftiPayloadLen == 1000
\* (variant: sizeof_hdr stored big-endian)
nifti_header_big_endian ==
    LET h0 == ZeroBytes(NiftiHeaderSize)
        h1 == SliceAssign(h0, 0, 4, ToBytesBig(SizeofHdr, 4))
    IN  SliceAssign(h1, 40, 48, Bytes("n+1") \o ZeroBytes(5))
nifti_header ==
    LET h0 == ZeroBytes(NiftiHeaderSize)
        h1 == SliceAssign(h0, 0, 4, ToBytesLittle(SizeofHdr, 4))
    IN  SliceAssign(h1, 40, 48, Bytes("n+1") \o ZeroBytes(5))
nifti_bytes == nifti_header \o ZeroBytes(NiftiPayloadLen)

\* create_anatomical_data: t1_json
t1_json ==
    JObj(<< <<"MagneticFieldStrength", JNum("3.0")>>,
            <<"Manufacturer", JStr("Siemens")>>,
            <<"ManufacturersModelName", JStr("Prisma")>>,
            <<"RepetitionTime", JNum("2.3")>>,
            <<"EchoTime", JNum("0.00456")>>,
            <<"FlipAngle", JInt(8)>>,
            <<"InversionTime", JNum("0.9")>>,
            <<"SliceThickness", JNum("1.0")>>,
            <<"SpacingBetweenSlices", JNum("1.0")>>,
            <<"PixelBandwidth", JInt(200)>>,
            <<"PhaseEncodingDirection", JStr("j-")>> >>)
t1_json_text == JsonDump(t1_json, 0)

\* ---------------------------------------------------------- filesystem
Parent(path) == SubSeq(path, 1, Len(path) - 1)
Ancestors(path) == {SubSeq(path, 1, k) : k \in 0..Len(path)}

\* Path.mkdir(parents, exist_ok): "ok" or the exception it raises.
mkdir_result(ds, fs, path, parents, exist_ok) ==
    IF path \in ds THEN (IF exist_ok THEN "ok" ELSE "FileExistsError")
    ELSE IF path \in DOMAIN fs THEN "FileExistsError"
    ELSE IF Len(path) > 0 /\ Parent(path) \notin ds /\ ~parents
         THEN "FileNotFoundError"
    ELSE "ok"

\* The directories after a successful Path.mkdir.
mkdir_dirs(ds, path, parents) ==
    IF parents THEN ds \cup Ancestors(path) ELSE ds \cup {path}

\* open(path, "w") / open(path, "wb"): "ok" or the exception it raises.
open_result(ds, path) ==
    IF path \in ds THEN "IsADirectoryError"
    ELSE IF Parent(path) \notin ds THEN "FileNotFoundError"
    ELSE "ok"

\* The files after open(path, "w") and the writes: the file is created or
\* truncated, then holds exactly what was written.
\* (variant: the file opened in append mode)
write_appending(fs, path, content) ==
    [q \in DOMAIN fs \cup {path} |->
        IF q = path
        THEN (IF q \in DOMAIN fs THEN fs[q] \o content ELSE content)
        ELSE fs[q]]
write(fs, path, content) ==
    [q \in DOMAIN fs \cup {path} |-> IF q = path THEN content ELSE fs[q]]


\* --------------------------------------------------------------- state
VARIABLES
    dirs,            \* the directories that exist, as paths under output_dir
    files,           \* path -> content of every regular file
    pc,              \* the statement of main() the process is about to run
    i,               \* main's loop variable
    n_participants,  \* args.n_participants
    sessions,        \* args.sessions
    include_anat,    \* args.include_anat
    rng,             \* the state of numpy's global generator
    stdout,          \* the lines printed by the current process
    err,             \* the exception that ended the process, or "none"
    rerun            \* TRUE once the generator was invoked again

vars == <<dirs, files, pc, i, n_participants, sessions, include_anat, rng,
          stdout, err, rerun>>
args == <<n_participants, sessions, include_anat>>

output_dir == "out"
NoFiles == [q \in {} |-> ""]

IntStr(n) == IF n < 0 THEN "-" \o ToStr(0 - n) ELSE ToStr(n)
BoolStr(b) == IF b THEN "True" ELSE "False"

\* main: the session argument it passes to both create_* functions.
Session == IF sessions THEN "01" ELSE None
Pid == participant_id(i)
Pdir == participant_dir(i)

Init ==
    /\ dirs \in {{}, {<<>>}}
    /\ files = NoFiles
    /\ pc = "main"
    /\ i = 0
    /\ n_participants \in NValues
    /\ sessions \in BOOLEAN
    /\ include_anat \in BOOLEAN
    /\ rng \in Seeds
    /\ stdout = <<>>
    /\ err = "none"
    /\ rerun = FALSE

\* (variant: the exception caught and reported, the run carried on to its
\* closing prints)
Raise_swallowed(e) ==
    /\ pc' = "summary"
    /\ err' = e
    /\ UNCHANGED <<dirs, files, i, args, rng, stdout, rerun>>

\* An uncaught exception: the interpreter exits with a traceback.
Raise(e) ==
    /\ pc' = "failed"
    /\ err' = e
    /\ UNCHANGED <<dirs, files, i, args, rng, stdout, rerun>>

\* One Path.mkdir call followed by the move to statement `next`.
Mkdir(path, parents, exist_ok, next, printed) ==
    LET res == mkdir_result(dirs, files, path, parents, exist_ok)
    IN  IF res = "ok"
        THEN /\ dirs' = mkdir_dirs(dirs, path, parents)
             /\ pc' = next
             /\ stdout' = stdout \o printed
             /\ UNCHANGED <<files, i, args, rng, err, rerun>>
        ELSE Raise(res)

\* One `with open(path, "w") as f: f.write(...)` block, then `next`.
WriteFile(path, content, next, printed) ==
    LET res == open_result(dirs, path)
    IN  IF res = "ok"
        THEN /\ files' = write(files, path, content)
             /\ pc' = next
             /\ stdout' = stdout \o printed
             /\ UNCHANGED <<dirs, i, args, rng, err, rerun>>
        ELSE Raise(res)

\* for i in range(1, n_participants + 1): the statement reached when the
\* loop variable would become k.
\* (variant: the loop written as range(1, n_participants))
LoopTarget_exclusive(k) ==
    IF k < n_participants THEN "participant_dir" ELSE "summary"
LoopTarget(k) == IF k <= n_participants THEN "participant_dir" ELSE "summary"
LoopIndex(k) == IF k <= n_participants THEN k ELSE i

\* main: parse_args, output_dir.mkdir(parents=True, exist_ok=True), prints.
main_output_dir ==
    /\ pc = "main"
    /\ Mkdir(<<>>, TRUE, TRUE, "create_dataset_description",
             <<"Generating synthetic MEG dataset in: " \o output_dir,
               "Participants: " \o IntStr(n_participants),
               "Sessions: " \o BoolStr(sessions),
               "Anatomical data: " \o BoolStr(include_anat)>>)

create_dataset_description ==
    /\ pc = "create_dataset_description"
    /\ WriteFile(dataset_description_file, description_text,
                 "create_participants_tsv", <<>>)

\* create_participants_tsv, then the entry of main's loop.
create_participants_tsv ==
    /\ pc = "create_participants_tsv"
    /\ LET res == open_result(dirs, participants_file)
       IN  IF res = "ok"
           THEN /\ files' = write(files, participants_file,
                                  participants_text(n_participants, rng))
                /\ rng' = RngAfter(rng, 2 * n_participants)
                /\ pc' = LoopTarget(1)
                /\ i' = LoopIndex(1)
                /\ UNCHANGED <<dirs, args, stdout, err, rerun>>
           ELSE Raise(res)

\* main: participant_dir.mkdir(exist_ok=True)
main_participant_dir ==
    /\ pc = "participant_dir"
    /\ Mkdir(Pdir, FALSE, TRUE, "meg_dir", <<>>)

\* create_meg_data: meg_dir.mkdir(parents=True, exist_ok=True)
create_meg_data_dir ==
    /\ pc = "meg_dir"
    /\ Mkdir(meg_dir(Pdir, Session), TRUE, TRUE, "meg_file", <<>>)

create_meg_data_fif ==
    /\ pc = "meg_file"
    /\ WriteFile(meg_file(Pdir, Pid, Session), fif_bytes, "meg_json", <<>>)

create_meg_data_json ==
    /\ pc = "meg_json"
    /\ WriteFile(meg_json_file(Pdir, Pid, Session), meg_json_text,
                 "channels", <<>>)

\* create_meg_data: channels.tsv and the print; then either the anatomical
\* data of this participant or the next round of main's loop.
create_meg_data_channels ==
    /\ pc = "channels"
    /\ LET res == open_result(dirs, channels_file(Pdir, Pid, Session))
       IN  IF res = "ok"
           THEN /\ files' = write(files, channels_file(Pdir, Pid, Session),
                                  channels_text)
                /\ stdout' = stdout \o <<"Created MEG data for " \o Pid>>
                /\ pc' = IF include_anat THEN "anat_dir" ELSE LoopTarget(i + 1)
                /\ i' = IF include_anat THEN i ELSE LoopIndex(i + 1)
                /\ UNCHANGED <<dirs, args, rng, err, rerun>>
           ELSE Raise(res)

create_anatomical_data_dir ==
    /\ pc = "anat_dir"
    /\ Mkdir(anat_dir(Pdir, Session), TRUE, TRUE, "t1_file", <<>>)

create_anatomical_data_nii ==
    /\ pc = "t1_file"
    /\ WriteFile(t1_file(Pdir, Pid, Session), nifti_bytes, "t1_json", <<>>)

create_anatomical_data_json ==
    /\ pc = "t1_json"
    /\ LET res == open_result(dirs, t1_json_file(Pdir, Pid, Session))
       IN  IF res = "ok"
           THEN /\ files' = write(files, t1_json_file(Pdir, Pid, Session),
                                  t1_json_text)
                /\ stdout' = stdout \o <<"Created anatomical data for " \o Pid>>
                /\ pc' = LoopTarget(i + 1)
                /\ i' = LoopIndex(i + 1)
                /\ UNCHANGED <<dirs, args, rng, err, rerun>>
           ELSE Raise(res)

\* The three closing prints (the first without its leading emoji).
success_summary ==
    <<"Synthetic dataset created successfully in " \o output_dir,
      "",
      "To validate the dataset, run:",
      "  ./tools/bids_validate.sh " \o output_dir>>

\* main: the closing prints, after which the process exits with status 0.
main_summary ==
    /\ pc = "summary"
    /\ stdout' = stdout \o success_summary
    /\ pc' = "done"
    /\ UNCHANGED <<dirs, files, i, args, rng, err, rerun>>

\* The statements that create a directory, and those that write a file with
\* the path and the kind of content each writes.
MkdirSteps == {"main", "participant_dir", "meg_dir", "anat_dir"}
WriteSteps == {"create_dataset_description", "create_participants_tsv",
               "meg_file", "meg_json", "channels", "t1_file", "t1_json"}

Target ==
    CASE pc = "create_dataset_description" -> dataset_description_file
      [] pc = "create_participants_tsv" -> participants_file
      [] pc = "meg_file" -> meg_file(Pdir, Pid, Session)
      [] pc = "meg_json" -> meg_json_file(Pdir, Pid, Session)
      [] pc = "channels" -> channels_file(Pdir, Pid, Session)
      [] pc = "t1_file" -> t1_file(Pdir, Pid, Session)
      [] pc = "t1_json" -> t1_json_file(Pdir, Pid, Session)

Truncated == IF pc \in {"meg_file", "t1_file"} THEN <<>> ELSE ""

\* A filesystem error (permission denied, disk full) in mkdir or in open:
\* nothing is changed and the OSError ends the process.
os_error_before ==
    /\ pc \in MkdirSteps \cup WriteSteps
    /\ Raise("OSError")

\* A filesystem error after open(path, "w") succeeded (disk full while
\* writing): the file exists, truncated, and the OSError ends the process.
os_error_writing ==
    /\ pc \in WriteSteps
    /\ open_result(dirs, Target) = "ok"
    /\ files' = write(files, Target, Truncated)
    /\ pc' = "failed"
    /\ err' = "OSError"
    /\ UNCHANGED <<dirs, i, args, rng, stdout, rerun>>

\* The generator is invoked again with the same arguments on the directory a
\* completed run populated: a new process, a newly seeded generator.
invoke_again ==
    /\ pc = "done"
    /\ pc' = "main"
    /\ i' = 0
    /\ rng' \in Seeds
    /\ stdout' = <<>>
    /\ rerun' = TRUE
    /\ UNCHANGED <<dirs, files, args, err>>

Next ==
    \/ main_output_dir
    \/ create_dataset_description
    \/ create_participants_tsv
    \/ main_participant_dir
    \/ create_meg_data_dir
    \/ create_meg_data_fif
    \/ create_meg_data_json
    \/ create_meg_data_channels
    \/ create_anatomical_data_dir
    \/ create_anatomical_data_nii
    \/ create_anatomical_data_json
    \/ main_summary
    \/ os_error_before
    \/ os_error_writing
    \/ invoke_again

Spec == Init /\ [][Next]_vars


\* ------------------------------------------------- reading the dataset
\* What a reader of the generated files sees.  These parse the text on disk;
\* none of them looks at the generator's own data structures.

\* The positions of character c in t, ascending.
IsAt(t, c, k) == SubSeq(t, k, k) = c
Positions(t, c) ==
    SelectSeq([k \in 1..Len(t) |-> k], LAMBDA k : IsAt(t, c, k))

Pieces(t, pos) ==
    [k \in 1..(Len(pos) + 1) |->
        SubSeq(t, IF k = 1 THEN 1 ELSE pos[k - 1] + 1,
                  IF k = Len(pos) + 1 THEN Len(t) ELSE pos[k] - 1)]

\* str.split(sep) for a one-character separator.  (Here and below a value
\* used many times is bound once, as the only element of a set.)
Split(t, sep) ==
    CHOOSE r \in {Pieces(t, pos) : pos \in {Positions(t, sep)}} : TRUE

DropLastIfEmpty(ls) ==
    IF Len(ls) > 0 /\ ls[Len(ls)] = "" THEN SubSeq(ls, 1, Len(ls) - 1) ELSE ls

\* str.splitlines(): a final "\n" ends the last line, it starts no new one.
Lines(t) ==
    CHOOSE r \in {DropLastIfEmpty(ls) : ls \in {Split(t, "\n")}} : TRUE

CellsOf(ls) == [k \in 1..Len(ls) |-> Split(ls[k], "\t")]

\* A TSV file as rows of cells; row 1 is the header row.
ReadTsv(t) == CHOOSE r \in {CellsOf(ls) : ls \in {Lines(t)}} : TRUE
DataRows(table) == Tail(table)

IsDigit(c) == c \in {"0", "1", "2", "3", "4", "5", "6", "7", "8", "9"}
DigitValue(c) == CHOOSE d \in 0..9 : Digit(d) = c
AllDigits(t) == Len(t) > 0 /\ \A k \in 1..Len(t) : IsDigit(SubSeq(t, k, k))

RECURSIVE ParseInt(_)
ParseInt(t) ==
    IF Len(t) = 0 THEN 0
    ELSE 10 * ParseInt(SubSeq(t, 1, Len(t) - 1))
         + DigitValue(SubSeq(t, Len(t), Len(t)))

StartsWith(t, prefix) ==
    Len(t) >= Len(prefix) /\ SubSeq(t, 1, Len(prefix)) = prefix
Contains(t, part) ==
    \E k \in 1..(Len(t) - Len(part) + 1) : SubSeq(t, k, k + Len(part) - 1) = part
StripComma(t) ==
    IF Len(t) > 0 /\ SubSeq(t, Len(t), Len(t)) = ","
    THEN SubSeq(t, 1, Len(t) - 1) ELSE t

\* The value of a top-level key of a JSON object written one member per
\* line with a two-space indent, as text; "" when the key is absent.
JsonMemberOf(ls, key) ==
    LET prefix == "  \"" \o key \o "\": "
        hits == {k \in 1..Len(ls) : StartsWith(ls[k], prefix)}
    IN  IF hits = {} THEN ""
        ELSE LET k == CHOOSE h \in hits : TRUE
             IN  StripComma(SubSeq(ls[k], Len(prefix) + 1, Len(ls[k])))
JsonMember(t, key) ==
    CHOOSE r \in {JsonMemberOf(ls, key) : ls \in {Lines(t)}} : TRUE
JsonInt(t, key) ==
    CHOOSE r \in {ParseInt(v) : v \in {JsonMember(t, key)}} : TRUE

\* The paths of the regular files on disk, and those with a given ending.
Paths == DOMAIN files
FileName(path) == path[Len(path)]
EndsWith(t, suffix) ==
    Len(t) >= Len(suffix)
    /\ SubSeq(t, Len(t) - Len(suffix) + 1, Len(t)) = suffix
PathsEnding(suffix) == {q \in Paths : EndsWith(FileName(q), suffix)}
\* The filename without `suffix`, and the sibling with another suffix.
Stem(path, suffix) ==
    SubSeq(FileName(path), 1, Len(FileName(path)) - Len(suffix))
Sibling(path, suffix, other) == Parent(path) \o <<Stem(path, suffix) \o other>>

\* ---------------------------------------------------------- properties
\* The label of participant k as the dataset layout states it: "sub-" and
\* the index in decimal, at least two digits wide.
IsLabelOf(label, k) ==
    /\ StartsWith(label, "sub-")
    /\ LET digits == SubSeq(label, 5, Len(label))
       IN  /\ AllDigits(digits)
           /\ ParseInt(digits) = k
           /\ Len(digits) >= 2
           /\ (Len(digits) > 2 => SubSeq(digits, 1, 1) # "0")

Complete(path) == path \in Paths /\ Len(files[path]) > 0

ParticipantsTable == ReadTsv(files[participants_file])

\* C1: for N >= 1 a written participants.tsv is the header row followed by
\* exactly N data rows, the i-th labelled sub-<i, two digits>, so the labels
\* run in increasing order without gaps or duplicates.
ParticipantsTsvRows ==
    (n_participants >= 1 /\ Complete(participants_file)) =>
        \A table \in {ParticipantsTable} :
            /\ table[1] = <<"participant_id", "age", "sex">>
            /\ Len(DataRows(table)) = n_participants
            /\ \A k \in 1..Len(DataRows(table)) :
                  /\ Len(DataRows(table)[k]) = 3
                  /\ IsLabelOf(DataRows(table)[k][1], k)

ParticipantsTsvWritten ==
    /\ n_participants = LargeN
    /\ pc = "done"
    /\ Complete(participants_file)
    /\ Len(DataRows(ParticipantsTable)) >= 10
    /\ StartsWith(DataRows(ParticipantsTable)[10][1], "sub-1")

\* The layout of section "Filesystem output layout": the paths of the
\* files of participant k.
LayoutLabel(k) == "sub-" \o (IF k < 10 THEN "0" ELSE "") \o ToStr(k)
LayoutDir(k, modality) ==
    <<LayoutLabel(k)>> \o (IF sessions THEN <<"ses-01">> ELSE <<>>)
    \o <<modality>>
LayoutStem(k) == LayoutLabel(k) \o (IF sessions THEN "_ses-01" ELSE "")
LayoutMegFiles(k) ==
    {LayoutDir(k, "meg") \o <<LayoutStem(k) \o "_task-rest_run-01" \o ext>> :
        ext \in {"_meg.fif", "_meg.json", "_channels.tsv"}}
LayoutAnatFiles(k) ==
    {LayoutDir(k, "anat") \o <<LayoutStem(k) \o "_T1w" \o ext>> :
        ext \in {".nii.gz", ".json"}}
LayoutFiles ==
    {<<"dataset_description.json">>, <<"participants.tsv">>}
    \cup UNION {LayoutMegFiles(k) : k \in 1..n_participants}
    \cup (IF include_anat
          THEN UNION {LayoutAnatFiles(k) : k \in 1..n_participants}
          ELSE {})

\* C2: for N >= 1 and any flags, a completed run on an empty output
\* directory leaves exactly the files of the layout, the anatomical pair
\* iff include-anat; without include-anat no anat directory exists.
ExactFileSet ==
    (pc = "done" /\ ~rerun /\ n_participants >= 1) =>
        /\ Paths = LayoutFiles
        /\ (~include_anat => \A d \in dirs : \A k \in 1..Len(d) : d[k] # "anat")

FirstRunDoneWithAnat ==
    /\ pc = "done" /\ ~rerun /\ n_participants = LargeN /\ include_anat
    /\ Cardinality(Paths) = 2 + 5 * LargeN

\* The session level of a path: in its directories, and in its filename.
HasSessionDir(path) ==
    \E k \in 1..(Len(path) - 1) : StartsWith(path[k], "ses-")
UnderSes01(path) == \E k \in 1..(Len(path) - 1) : path[k] = "ses-01"
HasSessionInName(path) == Contains(FileName(path), "_ses-")
PerParticipantFiles == {q \in Paths : Len(q) > 1}

\* C3: the session segment is all-or-nothing within a run: with the flag
\* every per-participant file lies under ses-01 and has _ses-01 in its name,
\* without it no path has a ses- directory and no name has _ses-; never one
\* without the other.
SessionAllOrNothing ==
    /\ \A q \in PerParticipantFiles :
          /\ HasSessionDir(q) <=> HasSessionInName(q)
          /\ sessions => (UnderSes01(q) /\ Contains(FileName(q), "_ses-01_"))
          /\ ~sessions => (~HasSessionDir(q) /\ ~HasSessionInName(q))
    /\ ~sessions => \A d \in dirs : \A k \in 1..Len(d) : ~StartsWith(d[k], "ses-")

SessionRunDone ==
    /\ pc = "done" /\ sessions /\ include_anat /\ n_participants >= 2
    /\ \E q \in PerParticipantFiles : UnderSes01(q) /\ HasSessionInName(q)


\* The step in which create_meg_data writes a channels.tsv: Target is the
\* path it writes, and the sidecar written just before shares its stem.
WroteChannels == pc = "channels" /\ pc' \notin {"channels", "failed"}
SidecarOf(path) == Sibling(path, "_channels.tsv", "_meg.json")
MegTypes == {"MEGGMAG", "MEGGPLANAR"}
RowsOfTypes(rows, types) == {k \in 1..Len(rows) : rows[k][2] \in types}

CountsAgree(rows, sidecar) ==
    /\ JsonInt(sidecar, "MEGChannelCount") + JsonInt(sidecar, "EOGChannelCount")
         + JsonInt(sidecar, "ECGChannelCount") = Len(rows)
    /\ Len(rows) = 309
    /\ JsonInt(sidecar, "MEGChannelCount") = Cardinality(RowsOfTypes(rows, MegTypes))
    /\ JsonInt(sidecar, "EOGChannelCount") = Cardinality(RowsOfTypes(rows, {"EOG"}))
    /\ JsonInt(sidecar, "ECGChannelCount") = Cardinality(RowsOfTypes(rows, {"ECG"}))
    /\ Cardinality(RowsOfTypes(rows, MegTypes)) = 306
    /\ Cardinality(RowsOfTypes(rows, {"EOG"})) = 2
    /\ Cardinality(RowsOfTypes(rows, {"ECG"})) = 1

\* C4: for every MEG record written, the three channel counts of the JSON
\* sidecar sum to the number of data rows of the channels.tsv of the same
\* stem, both are 309, and each count equals the rows of its type
\* (306 MEG, 2 EOG, 1 ECG).
SidecarCountsMatchTable ==
    [][WroteChannels =>
          /\ SidecarOf(Target) \in DOMAIN files'
          /\ \A rows \in {DataRows(ReadTsv(files'[Target]))} :
                CountsAgree(rows, files'[SidecarOf(Target)])]_vars

SidecarAndTableOnDisk ==
    \E q \in PathsEnding("_channels.tsv") :
        /\ Complete(q) /\ Complete(SidecarOf(q))
        /\ JsonInt(files[SidecarOf(q)], "MEGChannelCount") = 306
        /\ Len(Lines(files[q])) = 310

NamedInScheme(name, prefix, width, k) ==
    /\ StartsWith(name, prefix)
    /\ Len(name) = Len(prefix) + width
    /\ AllDigits(SubSeq(name, Len(prefix) + 1, Len(name)))
    /\ ParseInt(SubSeq(name, Len(prefix) + 1, Len(name))) = k

NamesDistinct(rows) ==
    /\ Len(rows) = 309
    /\ \A a, b \in 1..Len(rows) : a # b => rows[a][1] # rows[b][1]
    /\ \A k \in 1..306 : NamedInScheme(rows[k][1], "MEG", 4, k)
    /\ \A k \in 1..2 : NamedInScheme(rows[306 + k][1], "EOG", 3, k)

\* C9: within any channels.tsv written, the names of the 309 rows
\* (MEG0001..MEG0306, EOG001..EOG002, the ECG name) are pairwise distinct.
ChannelNamesDistinct ==
    [][WroteChannels =>
          \A rows \in {DataRows(ReadTsv(files'[Target]))} :
              NamesDistinct(rows)]_vars

TableWithAllTypesOnDisk ==
    \E q \in PathsEnding("_channels.tsv") :
        /\ Complete(q)
        /\ Contains(files[q], "\nMEG0306\t")
        /\ Contains(files[q], "\nEOG002\t")
        /\ Contains(files[q], "\nECG")

\* A cell holding the decimal number whole.frac
DecimalIs(cell, whole, frac) ==
    \A parts \in {Split(cell, ".")} :
        /\ Len(parts) = 2
        /\ AllDigits(parts[1]) /\ ParseInt(parts[1]) = whole
        /\ parts[2] = frac

RowsInOrder(rows) ==
    /\ Len(rows) = 309
    /\ \A k \in 1..306 :
          IF (k - 1) % 3 = 2
          THEN rows[k][2] = "MEGGMAG" /\ rows[k][3] = "T"
          ELSE rows[k][2] = "MEGGPLANAR" /\ rows[k][3] = "T/m"
    /\ Cardinality(RowsOfTypes(rows, {"MEGGPLANAR"})) = 204
    /\ Cardinality(RowsOfTypes(rows, {"MEGGMAG"})) = 102
    /\ rows[307][2] = "EOG" /\ rows[308][2] = "EOG" /\ rows[309][2] = "ECG"
    /\ \A k \in 1..Len(rows) :
          /\ Len(rows[k]) = 7
          /\ DecimalIs(rows[k][4], 0, "1")
          /\ DecimalIs(rows[k][5], 330, "0")
          /\ DecimalIs(rows[k][6], 1000, "0")
          /\ rows[k][7] = "good"

\* C10: the rows of every channels.tsv are 306 MEG rows, the row at 0-based
\* index i a magnetometer in T iff i mod 3 = 2 and else a gradiometer in
\* T/m (204 and 102 of them), then 2 EOG rows, then 1 ECG row; every row has
\* cutoffs 0.1 and 330, sampling frequency 1000 and status good.
ChannelRowsInOrder ==
    [][WroteChannels =>
          \A rows \in {DataRows(ReadTsv(files'[Target]))} :
              RowsInOrder(rows)]_vars

TableWithTripletsOnDisk ==
    \E q \in PathsEnding("_channels.tsv") :
        /\ Complete(q)
        /\ \A ls \in {Lines(files[q])} :
               /\ Len(ls) = 310
               /\ Split(ls[4], "\t")[2] = "MEGGMAG"
               /\ Split(ls[310], "\t")[2] = "ECG"

\* C5 as stated: with a participant count below 1 no step creates a
\* directory or writes a file, and the run does not end in success.
InvalidCountRejected ==
    [][n_participants < 1 =>
          (dirs' = dirs /\ files' = files /\ pc' # "done")]_vars

SummaryPrinted ==
    \E k \in 1..Len(stdout) :
        StartsWith(stdout[k], "Synthetic dataset created successfully")

\* A step in which an error ends the run: nothing but the file being
\* written changes, and nothing is printed.
AbortLeavesDisk ==
    (pc # "failed" /\ pc' = "failed") =>
        /\ err' # "none"
        /\ dirs' = dirs
        /\ stdout' = stdout
        /\ \A q \in DOMAIN files :
              /\ q \in DOMAIN files'
              /\ (pc \in WriteSteps /\ q = Target) \/ files'[q] = files[q]
        /\ \A q \in DOMAIN files' :
              q \in DOMAIN files \/ (pc \in WriteSteps /\ q = Target)

AbortedStaysAborted ==
    pc = "failed" => (pc' = "failed" /\ dirs' = dirs /\ files' = files
                      /\ stdout' = stdout)

SummaryOnlyWhenComplete ==
    /\ pc = "failed" => ~SummaryPrinted
    /\ SummaryPrinted =>
          /\ err = "none"
          /\ \A q \in LayoutFiles : Complete(q)

\* C6: a failed directory creation or file write aborts the run there:
\* nothing later is created or written, nothing retried, the files written
\* before stay as they are, and the success summary is not emitted; so the
\* summary is emitted only when every file of the dataset has been written.
FailureAbortsRun ==
    /\ [][AbortLeavesDisk /\ AbortedStaysAborted]_vars
    /\ []SummaryOnlyWhenComplete

AbortedMidway ==
    /\ pc = "failed" /\ err = "OSError" /\ i >= 2
    /\ Complete(participants_file)
    /\ \E q \in PathsEnding("_meg.fif") : ~Complete(q)

\* What one run writes to each file other than participants.tsv.
OneRunHolds(path) ==
    IF path = dataset_description_file THEN files[path] = description_text
    ELSE IF EndsWith(FileName(path), "_meg.fif") THEN files[path] = fif_bytes
    ELSE IF EndsWith(FileName(path), "_meg.json") THEN files[path] = meg_json_text
    ELSE IF EndsWith(FileName(path), "_channels.tsv") THEN files[path] = channels_text
    ELSE IF EndsWith(FileName(path), ".nii.gz") THEN files[path] = nifti_bytes
    ELSE IF EndsWith(FileName(path), "_T1w.json") THEN files[path] = t1_json_text
    ELSE FALSE

\* C7: a second run with the same arguments on the populated directory does
\* not fail on what exists and overwrites in place: the same set of paths,
\* participants.tsv with N data rows, every other file holding exactly what
\* one run writes.
RerunOverwrites ==
    /\ rerun => err \in {"none", "OSError"}
    /\ (rerun /\ pc = "done" /\ n_participants >= 1) =>
          /\ Paths = LayoutFiles
          /\ ParticipantsTable[1] = <<"participant_id", "age", "sex">>
          /\ Len(DataRows(ParticipantsTable)) = n_participants
          /\ \A q \in Paths \ {participants_file} : OneRunHolds(q)

SecondRunDone ==
    /\ rerun /\ pc = "done" /\ n_participants = MaxN /\ include_anat
    /\ Cardinality(Paths) = 2 + 5 * MaxN

\* The distinct contents of the complete NIfTI placeholders on disk.
NiftiImages == {files[q] : q \in PathsEnding(".nii.gz")} \ {<<>>}

\* C8: every NIfTI placeholder is a 348-byte header, bytes 0-3 the
\* little-endian integer 348, bytes 40-43 the token n+1, every other header
\* byte zero, followed by 1000 zero bytes; no byte depends on the
\* participant or the session.
NiftiPlaceholderLayout ==
    /\ Cardinality(NiftiImages) <= 1
    /\ \A b \in NiftiImages :
          /\ Len(b) = 348 + 1000
          /\ b[1] + 256 * b[2] + 65536 * b[3] + 16777216 * b[4] = 348
          /\ <<b[41], b[42], b[43], b[44]>> = <<110, 43, 49, 0>>
          /\ \A k \in 5..348 : k \notin 41..43 => b[k] = 0
          /\ \A k \in 349..Len(b) : b[k] = 0

NiftiWrittenForAll ==
    /\ pc = "done" /\ include_anat /\ n_participants = MaxN
    /\ Cardinality({q \in PathsEnding(".nii.gz") : Complete(q)}) = MaxN

=============================================================================
